---- MODULE Spec2Model ----
(***************************************************************************)
(* Leader/follower replicated key-value store (m33ga/leaders-followers).   *)
(*                                                                         *)
(* The module models                                                       *)
(*   - KeyValueStore            (src/api/store.py),                        *)
(*   - ReplicationService       (src/api/replication.py),                  *)
(*   - the follower's /replicate endpoint (src/api/endpoints/follower.py), *)
(*   - the leader's /write endpoint       (src/api/endpoints/leader.py).   *)
(*                                                                         *)
(* Four specifications share the variables:                                *)
(*   Spec         one call of ReplicationService.replicate and its tasks   *)
(*   SpecStore    one KeyValueStore driven by set calls                    *)
(*   SpecFollower one follower driven by POST /replicate requests          *)
(*   SpecLeader   the leader driven by POST /write requests                *)
(*                                                                         *)
(* Timestamps are Python floats; only their order is used, so they are     *)
(* modelled as integers.  An Optional timestamp is a set: {} is None and   *)
(* {t} is the timestamp t.                                                 *)
(***************************************************************************)
EXTENDS Integers, Sequences, FiniteSets, TLC

\* ------------------------------------------------------------------ bounds
MaxFollowers == 2
MaxTs == 2
MaxCalls == 3
MaxRequests == 3
MaxWrites == 3

Keys == {"k1", "k2"}
Values == {"a", "b"}
Timestamps == -1 .. MaxTs
Leader == 0
Followers == 1 .. MaxFollowers
Nodes == {Leader} \cup Followers

\* Optional[str] of KeyValueStore.get: None when the key is absent.
None == "None"
\* Optional timestamp argument of KeyValueStore.set.
NoTimestamp == {}
OptTimestamps == {NoTimestamp} \cup {{t} : t \in Timestamps}

\* a Python dict is a function whose domain is the set of keys it holds
EmptyDict == [k \in {} |-> None]

VARIABLES
    store,              \* node -> KeyValueStore._store       (dict key -> value)
    timestamps,         \* node -> KeyValueStore._timestamps  (dict key -> timestamp)
    hist,               \* the calls made so far at the interface of the specification
    follower_urls,      \* ReplicationService.follower_urls = config.FOLLOWER_URLS
    write_quorum,       \* config.WRITE_QUORUM
    args,               \* the arguments of the running call of replicate
    pc,                 \* where replicate is: "idle", "waiting" (in asyncio.wait), "returned"
    tasks,              \* follower -> state of its _replicate_to_follower task
    successful_count,   \* locals of replicate
    failed_count,
    pending,
    result,             \* the tuple replicate returned
    calls,              \* caller -> its call of a KeyValueStore method and where it is
    snapshots           \* the dicts the calls of all() returned

storeVars == <<store, timestamps>>
configVars == <<follower_urls, write_quorum>>
replVars == <<args, pc, tasks, successful_count, failed_count, pending, result>>
concVars == <<calls, snapshots>>
vars == <<store, timestamps, hist, follower_urls, write_quorum,
          args, pc, tasks, successful_count, failed_count, pending, result,
          calls, snapshots>>

\* ------------------------------------------------------- KeyValueStore
\* A store object is the record [store |-> _store, timestamps |-> _timestamps].
KeyValueStore == [store |-> EmptyDict, timestamps |-> EmptyDict]

StoreOf(n) == [store |-> store[n], timestamps |-> timestamps[n]]

\* dict.get(key, default)
DictGet(d, key, default) == IF key \in DOMAIN d THEN d[key] ELSE default

\* d[key] = value
DictPut(d, key, value) == (key :> value) @@ d

get(s, key) == DictGet(s.store, key, None)

exists(s, key) == key \in DOMAIN s.store

\* all, but the dict _store itself is returned
all_alias(s) == [object |-> "_store", items |-> s.store]

\* self._store.copy(): a new dict object with the items _store has at the call
all(s) == [object |-> "copy", items |-> s.store]

\* set, but a stale write removes the entry instead of leaving it alone
set_stale_evicts(s, key, value, timestamp) ==
    LET current_ts == DictGet(s.timestamps, key, 0) IN
    IF timestamp = NoTimestamp \/ \E t \in timestamp : t > current_ts
    THEN [store |-> DictPut(s.store, key, value),
          timestamps |-> IF timestamp # NoTimestamp
                         THEN DictPut(s.timestamps, key, CHOOSE t \in timestamp : TRUE)
                         ELSE s.timestamps,
          ret |-> TRUE]
    ELSE [store |-> [k \in DOMAIN s.store \ {key} |-> s.store[k]],
          timestamps |-> [k \in DOMAIN s.timestamps \ {key} |-> s.timestamps[k]],
          ret |-> FALSE]

\* set, but a call without a timestamp forgets the timestamp stored for the key
set_untimestamped_clears(s, key, value, timestamp) ==
    LET current_ts == DictGet(s.timestamps, key, 0) IN
    IF timestamp = NoTimestamp
    THEN [store |-> DictPut(s.store, key, value),
          timestamps |-> [k \in DOMAIN s.timestamps \ {key} |-> s.timestamps[k]],
          ret |-> TRUE]
    ELSE IF \E t \in timestamp : t > current_ts
         THEN [store |-> DictPut(s.store, key, value),
               timestamps |-> DictPut(s.timestamps, key, CHOOSE t \in timestamp : TRUE),
               ret |-> TRUE]
         ELSE [store |-> s.store, timestamps |-> s.timestamps, ret |-> FALSE]

\* set, but the write is applied whatever the stored timestamp is
set_unconditional(s, key, value, timestamp) ==
    [store |-> DictPut(s.store, key, value),
     timestamps |-> IF timestamp # NoTimestamp
                    THEN DictPut(s.timestamps, key, CHOOSE t \in timestamp : TRUE)
                    ELSE s.timestamps,
     ret |-> TRUE]

\* set(key, value, timestamp=None) on the store object s: the new _store and
\* _timestamps, and the value returned
set(s, key, value, timestamp) ==
    LET current_ts == DictGet(s.timestamps, key, 0) IN
    IF timestamp = NoTimestamp \/ \E t \in timestamp : t > current_ts
    THEN [store |-> DictPut(s.store, key, value),
          timestamps |-> IF timestamp # NoTimestamp
                         THEN DictPut(s.timestamps, key, CHOOSE t \in timestamp : TRUE)
                         ELSE s.timestamps,
          ret |-> TRUE]
    ELSE [store |-> s.store, timestamps |-> s.timestamps, ret |-> FALSE]

\* set line by line (store.py:15-19)
set_current_ts(s, key) == DictGet(s.timestamps, key, 0)
set_condition(timestamp, current_ts) ==
    timestamp = NoTimestamp \/ \E t \in timestamp : t > current_ts
set_store_value(s, key, value) == DictPut(s.store, key, value)
set_store_timestamp(s, key, timestamp) ==
    IF timestamp # NoTimestamp
    THEN DictPut(s.timestamps, key, CHOOSE t \in timestamp : TRUE)
    ELSE s.timestamps

\* The coroutines that call the methods of one store concurrently: request
\* handlers running as tasks of one event loop.
Callers == {"c1", "c2", "c3"}

\* line is the line the call executes next: "idle" (not called), "line15",
\* "line16", "line18" (in set), "line27" (in all), "done" (returned)
IdleCall == [method |-> "none", key |-> None, value |-> None,
             timestamp |-> NoTimestamp, line |-> "idle", current_ts |-> 0]

InitCalls ==
    /\ calls = [c \in Callers |-> IdleCall]
    /\ snapshots = << >>

\* SuspensionPoints, but set awaits the event loop before lines 16 and 18
SuspensionPoints_InSet == {"line16", "line18"}

\* the lines inside a method body before which the coroutine is suspended and
\* the event loop can run another task: the bodies of set and all hold no await
SuspensionPoints == {}

\* the event loop runs one coroutine at a time, from one suspension to the next
InBody(c) == calls[c].line \in {"line16", "line18"}
CanRun(c) ==
    /\ calls[c].line \notin {"idle", "done"}
    /\ \A d \in Callers \ {c} : InBody(d) => calls[d].line \in SuspensionPoints

\* every node starts with an empty store
InitStores ==
    /\ store = [n \in Nodes |-> KeyValueStore.store]
    /\ timestamps = [n \in Nodes |-> KeyValueStore.timestamps]

\* --------------------------------------------------------------- Config
\* WRITE_QUORUM when the environment does not set it
DefaultWriteQuorum == 1
Quorums == -1 .. MaxFollowers + 1
\* FOLLOWER_URLS lists the first n followers, n = 0 .. MaxFollowers
FollowerUrlChoices == {1 .. n : n \in 0 .. MaxFollowers}

InitConfigDefault ==
    /\ follower_urls = {}
    /\ write_quorum = DefaultWriteQuorum

\* ---------------------------------------------------- ReplicationService
\* States of a _replicate_to_follower task:
\*   "none"      not created
\*   "sleep"     in asyncio.sleep(delay)
\*   "post"      request sent, awaiting client.post
\*   "responded" the follower handled the request, its response is on the way
\*   "ok"        finished with (True, follower_id)
\*   "fail"      finished with (False, follower_url)
TaskStates == {"none", "sleep", "post", "responded", "ok", "fail"}
TaskDone(f) == tasks[f] \in {"ok", "fail"}

NoArgs == EmptyDict
NoResult == << >>

InitReplication ==
    /\ args = NoArgs
    /\ pc = "idle"
    /\ tasks = [f \in Followers |-> "none"]
    /\ successful_count = 0
    /\ failed_count = 0
    /\ pending = {}
    /\ result = NoResult

\* the orders in which `for task in done` can visit the set done
Orders(S) == {o \in [1 .. Cardinality(S) -> S] : \A i, j \in DOMAIN o : o[i] = o[j] => i = j}

\* the loop condition, but it gives up while one task is still pending
LoopCondition_OffByOne(pending_, successful_count_, quorum) ==
    Cardinality(pending_) > 1 /\ successful_count_ < quorum

\* the loop condition, but quorum is not looked at
LoopCondition_PendingOnly(pending_, successful_count_, quorum) ==
    pending_ # {}

\* the loop condition, but pending is not looked at
LoopCondition_QuorumOnly(pending_, successful_count_, quorum) ==
    successful_count_ < quorum

\* while pending and successful_count < quorum
LoopCondition(pending_, successful_count_, quorum) ==
    pending_ # {} /\ successful_count_ < quorum

\* for task in done: ... (replication.py:88-99).  successes[i] is the first
\* component of the i-th task's result.  returned is true when the loop left
\* replicate through the return of line 94.
RECURSIVE process_done(_, _, _, _)
process_done(successes, successful_count_, failed_count_, quorum) ==
    IF successes = << >>
    THEN [returned |-> FALSE, successful_count |-> successful_count_,
          failed_count |-> failed_count_]
    ELSE IF Head(successes)
         THEN IF successful_count_ + 1 >= quorum
              THEN [returned |-> TRUE, successful_count |-> successful_count_ + 1,
                    failed_count |-> failed_count_]
              ELSE process_done(Tail(successes), successful_count_ + 1, failed_count_, quorum)
         ELSE process_done(Tail(successes), successful_count_, failed_count_ + 1, quorum)

\* the done tasks are not taken out of pending
PendingAfter_Kept(pending_, done) == pending_

\* the pending set asyncio.wait returns: the tasks that are not done
PendingAfter(pending_, done) == pending_ \ done

RECURSIVE count_all(_, _, _)
count_all(successes, successful_count_, failed_count_) ==
    IF successes = << >>
    THEN [successful_count |-> successful_count_, failed_count |-> failed_count_]
    ELSE IF Head(successes)
         THEN count_all(Tail(successes), successful_count_ + 1, failed_count_)
         ELSE count_all(Tail(successes), successful_count_, failed_count_ + 1)

\* resume, but every result is counted and replicate returns only when
\* nothing is pending
resume_wait_all(successes, pending_, successful_count_, failed_count_, quorum) ==
    LET r == count_all(successes, successful_count_, failed_count_) IN
    IF pending_ # {}
    THEN [pc |-> "waiting", successful_count |-> r.successful_count,
          failed_count |-> r.failed_count, result |-> NoResult]
    ELSE [pc |-> "returned", successful_count |-> r.successful_count,
          failed_count |-> r.failed_count,
          result |-> <<r.successful_count >= quorum, r.successful_count>>]

\* resume, but every result of done is counted before the quorum is tested
resume_count_whole_batch(successes, pending_, successful_count_, failed_count_, quorum) ==
    LET r == count_all(successes, successful_count_, failed_count_) IN
    IF LoopCondition(pending_, r.successful_count, quorum)
    THEN [pc |-> "waiting", successful_count |-> r.successful_count,
          failed_count |-> r.failed_count, result |-> NoResult]
    ELSE [pc |-> "returned", successful_count |-> r.successful_count,
          failed_count |-> r.failed_count,
          result |-> <<r.successful_count >= quorum, r.successful_count>>]

\* resume, but a failed task ends the call with (False, successful_count)
resume_abort_on_failure(successes, pending_, successful_count_, failed_count_, quorum) ==
    LET r == process_done(successes, successful_count_, failed_count_, quorum) IN
    IF \E i \in DOMAIN successes : ~successes[i]
    THEN [pc |-> "returned", successful_count |-> successful_count_,
          failed_count |-> failed_count_ + 1, result |-> <<FALSE, successful_count_>>]
    ELSE IF r.returned
         THEN [pc |-> "returned", successful_count |-> r.successful_count,
               failed_count |-> r.failed_count, result |-> <<TRUE, r.successful_count>>]
         ELSE IF pending_ # {} /\ r.successful_count < quorum
              THEN [pc |-> "waiting", successful_count |-> r.successful_count,
                    failed_count |-> r.failed_count, result |-> NoResult]
              ELSE [pc |-> "returned", successful_count |-> r.successful_count,
                    failed_count |-> r.failed_count,
                    result |-> <<r.successful_count >= quorum, r.successful_count>>]

\* replicate from the point where asyncio.wait returns (done, pending) to its
\* next await or return (replication.py:88-101, then 81): pending_ is the new
\* pending set, successes the results of done in the order the loop visits them.
resume(successes, pending_, successful_count_, failed_count_, quorum) ==
    LET r == process_done(successes, successful_count_, failed_count_, quorum) IN
    IF r.returned
    THEN [pc |-> "returned", successful_count |-> r.successful_count,
          failed_count |-> r.failed_count, result |-> <<TRUE, r.successful_count>>]
    ELSE IF LoopCondition(pending_, r.successful_count, quorum)
         THEN [pc |-> "waiting", successful_count |-> r.successful_count,
               failed_count |-> r.failed_count, result |-> NoResult]
         ELSE [pc |-> "returned", successful_count |-> r.successful_count,
               failed_count |-> r.failed_count,
               result |-> <<r.successful_count >= quorum, r.successful_count>>]

\* StartReplicate, but without the test for an empty follower list
StartReplicate_NoEmptyCheck(kwargs) ==
    /\ args' = kwargs
    /\ tasks' = [f \in Followers |-> IF f \in follower_urls THEN "sleep" ELSE "none"]
    /\ successful_count' = 0
    /\ failed_count' = 0
    /\ pending' = follower_urls
    /\ IF follower_urls # {} /\ 0 < kwargs.quorum
       THEN pc' = "waiting" /\ result' = NoResult
       ELSE pc' = "returned" /\ result' = <<0 >= kwargs.quorum, 0>>

\* replicate from its call to its first await or return (replication.py:69-81)
StartReplicate(kwargs) ==
    /\ args' = kwargs
    /\ IF follower_urls = {}
       THEN /\ pc' = "returned"
            /\ result' = <<TRUE, 0>>
            /\ UNCHANGED <<tasks, successful_count, failed_count, pending>>
       ELSE /\ tasks' = [f \in Followers |-> IF f \in follower_urls THEN "sleep" ELSE "none"]
            /\ successful_count' = 0
            /\ failed_count' = 0
            /\ pending' = follower_urls
            /\ IF LoopCondition(follower_urls, 0, kwargs.quorum)
               THEN pc' = "waiting" /\ result' = NoResult
               ELSE pc' = "returned" /\ result' = <<0 >= kwargs.quorum, 0>>

\* a caller calls replicate(key, value, timestamp, quorum)
Replicate(key, value, timestamp, quorum) ==
    /\ pc = "idle"
    /\ StartReplicate([key |-> key, value |-> value, timestamp |-> timestamp,
                       quorum |-> quorum])
    /\ UNCHANGED <<storeVars, hist, configVars, concVars>>

\* asyncio.sleep(delay) is over; the task posts the request (replication.py:36-44)
TaskPost(f) ==
    /\ tasks[f] = "sleep"
    /\ tasks' = [tasks EXCEPT ![f] = "post"]
    /\ UNCHANGED <<storeVars, hist, configVars, concVars, args, pc, successful_count,
                   failed_count, pending, result>>

\* --------------------------------------------- follower: POST /replicate
\* The endpoint stores the pair with store.set(request.key, request.value)
\* and answers 200 with ReplicationResponse(success=True, ...).
follower_replicate(s, request) ==
    LET r == set(s, request.key, request.value, NoTimestamp) IN
    [store |-> r.store, timestamps |-> r.timestamps,
     response |-> [status_code |-> 200, success |-> TRUE]]

ReplicationRequest(kwargs) ==
    [key |-> kwargs.key, value |-> kwargs.value, timestamp |-> kwargs.timestamp]

\* FollowerHandle, but the request of a task is dropped once replicate has
\* returned (the attempt is cancelled with its caller)
FollowerHandle_OnlyWhileWaiting(f) ==
    /\ tasks[f] = "post"
    /\ pc = "waiting"
    /\ LET r == follower_replicate(StoreOf(f), ReplicationRequest(args)) IN
        /\ store' = [store EXCEPT ![f] = r.store]
        /\ timestamps' = [timestamps EXCEPT ![f] = r.timestamps]
    /\ tasks' = [tasks EXCEPT ![f] = "responded"]
    /\ hist' = Append(hist, [follower |-> f, request |-> ReplicationRequest(args)])
    /\ UNCHANGED <<configVars, concVars, args, pc, successful_count, failed_count,
                   pending, result>>

\* the follower receives the request of task f and answers it; hist records
\* the requests the followers received
FollowerHandle(f) ==
    /\ tasks[f] = "post"
    /\ LET r == follower_replicate(StoreOf(f), ReplicationRequest(args)) IN
        /\ store' = [store EXCEPT ![f] = r.store]
        /\ timestamps' = [timestamps EXCEPT ![f] = r.timestamps]
    /\ tasks' = [tasks EXCEPT ![f] = "responded"]
    /\ hist' = Append(hist, [follower |-> f, request |-> ReplicationRequest(args)])
    /\ UNCHANGED <<configVars, concVars, args, pc, successful_count, failed_count,
                   pending, result>>

\* the response arrives with status 200: the task ends with (True, follower_id)
TaskAck(f) ==
    /\ tasks[f] = "responded"
    /\ tasks' = [tasks EXCEPT ![f] = "ok"]
    /\ UNCHANGED <<storeVars, hist, configVars, concVars, args, pc, successful_count,
                   failed_count, pending, result>>

\* TaskFail, but the failed attempt is started again
TaskFail_Retry(f) ==
    /\ tasks[f] \in {"post", "responded"}
    /\ tasks' = [tasks EXCEPT ![f] = "sleep"]
    /\ UNCHANGED <<storeVars, hist, configVars, concVars, args, pc, successful_count,
                   failed_count, pending, result>>

\* client.post raises (connection error, timeout) before or after the follower
\* handled the request, or the status is not 200: the task ends with (False, url)
TaskFail(f) ==
    /\ tasks[f] \in {"post", "responded"}
    /\ tasks' = [tasks EXCEPT ![f] = "fail"]
    /\ UNCHANGED <<storeVars, hist, configVars, concVars, args, pc, successful_count,
                   failed_count, pending, result>>

\* asyncio.wait(pending, return_when=FIRST_COMPLETED) returns: replicate runs
\* with done = the pending tasks that are done, up to its next await or return
Wake ==
    /\ pc = "waiting"
    /\ \E f \in pending : TaskDone(f)
    /\ LET done == {f \in pending : TaskDone(f)} IN
       \E order \in Orders(done) :
        LET r == resume([i \in DOMAIN order |-> tasks[order[i]] = "ok"],
                        PendingAfter(pending, done),
                        successful_count, failed_count, args.quorum)
        IN  /\ pc' = r.pc
            /\ successful_count' = r.successful_count
            /\ failed_count' = r.failed_count
            /\ result' = r.result
            /\ pending' = PendingAfter(pending, done)
    /\ UNCHANGED <<storeVars, hist, configVars, concVars, args, tasks>>

\* ------------------------------------------------------------------ Spec
\* One call of replicate on a ReplicationService with 0 .. MaxFollowers
\* followers; the tasks run on after replicate has returned.
Init ==
    /\ InitStores
    /\ hist = << >>
    /\ follower_urls \in FollowerUrlChoices
    /\ write_quorum = DefaultWriteQuorum
    /\ InitReplication
    /\ InitCalls

Next ==
    \/ \E key \in Keys, value \in Values, timestamp \in Timestamps, quorum \in Quorums :
          Replicate(key, value, timestamp, quorum)
    \/ \E f \in Followers : TaskPost(f)
    \/ \E f \in Followers : FollowerHandle(f)
    \/ \E f \in Followers : TaskAck(f)
    \/ \E f \in Followers : TaskFail(f)
    \/ Wake

Spec == Init /\ [][Next]_vars

\* Spec with the progress the event loop and the transport give: a sleep ends,
\* a posted request is handled or fails (httpx timeout 10.0), a response
\* arrives or the post fails, and a replicate whose wait can return is resumed.
\* A failure is never forced.
SpecFair ==
    /\ Spec
    /\ \A f \in Followers : WF_vars(TaskPost(f))
    /\ \A f \in Followers : WF_vars(FollowerHandle(f))
    /\ \A f \in Followers : WF_vars(TaskAck(f))
    /\ WF_vars(Wake)

\* ------------------------------------------------------ claims on Spec
\* the attempts that have ended acknowledged
Acknowledged == {f \in follower_urls : tasks[f] = "ok"}
Outstanding == {f \in follower_urls : ~TaskDone(f)}
Returned == pc = "returned"
committed == result[1]
acknowledged_count == result[2]

\* C1: early exit.  With followers and quorum >= 1, replicate is never left
\* waiting once the acknowledgments it has counted reach quorum: the step in
\* which the count reaches quorum returns (true, count), whatever is still
\* outstanding, and when the pending tasks already hold the acknowledgments
\* that complete the quorum it can return without any further task ending.
C1_CountReachesQuorum ==
    /\ pc = "waiting"
    /\ successful_count < args.quorum
    /\ successful_count' >= args.quorum

C1_EarlyExit ==
    /\ [](pc = "waiting" => successful_count < args.quorum)
    /\ []((/\ pc = "waiting"
           /\ successful_count + Cardinality(pending \cap Acknowledged) >= args.quorum)
          => ENABLED Wake)
    /\ [][C1_CountReachesQuorum =>
            (pc' = "returned" /\ result' = <<TRUE, successful_count'>>)]_vars

\* replicate returned true while an attempt had not resolved
C1_Witness ==
    /\ Returned
    /\ args.quorum >= 1
    /\ committed
    /\ acknowledged_count = args.quorum
    /\ Outstanding # {}
    /\ pending # {}

\* C2: full wait.  replicate returns (false, n) only when every dispatched
\* attempt has resolved and n < quorum.
C2_FullWait ==
    (Returned /\ ~committed) =>
        /\ \A f \in follower_urls : TaskDone(f)
        /\ pending = {}
        /\ acknowledged_count < args.quorum

\* quorum was missed with one acknowledgment and one failure
C2_Witness ==
    /\ Returned
    /\ ~committed
    /\ acknowledged_count >= 1
    /\ \E f \in follower_urls : tasks[f] = "fail"

C3_Outcome ==
    /\ committed <=> acknowledged_count >= args.quorum
    /\ acknowledged_count <= Cardinality(Acknowledged)
    /\ acknowledged_count <= Cardinality(follower_urls)

\* C3 (as claimed): whenever replicate returns (committed, n), committed is
\* true exactly when n >= quorum, and n exceeds neither the number of attempts
\* that ended acknowledged nor the number of followers.
C3_OutcomeAlways == Returned => C3_Outcome

\* C3 (amended): the same, for a call with at least one follower; with no
\* follower replicate returns (true, 0) whatever quorum is.
C3_OutcomeWithFollowers ==
    Returned => IF follower_urls # {} THEN C3_Outcome ELSE result = <<TRUE, 0>>

\* every follower acknowledged and all were counted
C3_Witness ==
    /\ Returned
    /\ Cardinality(follower_urls) >= 2
    /\ committed
    /\ acknowledged_count = Cardinality(follower_urls)

\* C11: with an empty follower set replicate returns (true, 0) in the step of
\* the call, whatever quorum is, and creates no task (no request is sent).
C11_EmptyFollowers ==
    /\ [](follower_urls = {} =>
            /\ \A f \in Followers : tasks[f] = "none"
            /\ pending = {}
            /\ pc # "waiting"
            /\ Returned => result = <<TRUE, 0>>)
    /\ [][(follower_urls = {} /\ pc = "idle")
            => (pc' = "returned" /\ result' = <<TRUE, 0>>)]_vars

\* replicate returned for an empty follower set and a quorum that no set of
\* followers could have met
C11_Witness ==
    /\ Returned
    /\ follower_urls = {}
    /\ args.quorum > MaxFollowers
    /\ result = <<TRUE, 0>>

\* C12: with quorum <= 0 replicate returns (true, 0) in the step of the call,
\* for any follower set, without waiting for any attempt.
C12_NonPositiveQuorum ==
    /\ []((pc # "idle" /\ args.quorum <= 0) => (Returned /\ result = <<TRUE, 0>>))
    /\ [][(pc = "idle" /\ pc' # "idle" /\ args'.quorum <= 0)
            => (pc' = "returned" /\ result' = <<TRUE, 0>>)]_vars

\* replicate returned (true, 0) for quorum <= 0 while all its attempts were
\* still outstanding
C12_Witness ==
    /\ Returned
    /\ args.quorum <= 0
    /\ Cardinality(follower_urls) >= 2
    /\ Outstanding = follower_urls
    /\ result = <<TRUE, 0>>

\* C13: with at least one follower and quorum greater than the number of
\* followers, replicate waits while an attempt is outstanding and returns
\* committed = false, whatever the followers answer.
C13_QuorumOutOfReach ==
    (pc # "idle" /\ follower_urls # {} /\ args.quorum > Cardinality(follower_urls)) =>
        /\ Outstanding # {} => pc = "waiting"
        /\ Returned => (~committed /\ Outstanding = {})

\* every follower acknowledged and the write still did not commit
C13_Witness ==
    /\ Returned
    /\ follower_urls # {}
    /\ args.quorum > Cardinality(follower_urls)
    /\ Acknowledged = follower_urls
    /\ result = <<FALSE, Cardinality(follower_urls)>>

Failed == {f \in follower_urls : tasks[f] = "fail"}

\* C14: failures are absorbed.  While replicate waits, each failed attempt it
\* has seen is counted in failed_count and each acknowledged one in
\* successful_count; a step in which replicate returns either completes the
\* quorum or leaves nothing pending; and what replicate returns is a pair
\* (committed, acknowledged_count), with every attempt counted when committed
\* is false.
C14_FailuresAbsorbed ==
    /\ [](pc = "waiting" =>
            /\ failed_count = Cardinality(Failed \ pending)
            /\ successful_count = Cardinality(Acknowledged \ pending))
    /\ [](Returned => result \in BOOLEAN \X (0 .. Cardinality(follower_urls)))
    /\ []((Returned /\ ~committed) =>
            /\ acknowledged_count = Cardinality(Acknowledged)
            /\ failed_count = Cardinality(Failed)
            /\ acknowledged_count + failed_count = Cardinality(follower_urls))
    /\ [][(pc = "waiting" /\ pc' = "returned")
            => (successful_count' >= args.quorum \/ pending' = {})]_vars

\* replicate has counted a failure and goes on waiting for the other attempt
C14_Witness ==
    /\ pc = "waiting"
    /\ failed_count >= 1
    /\ pending # {}
    /\ Failed \ pending # {}

\* the requests follower f received
Received(f) == {i \in 1 .. Len(hist) : hist[i].follower = f}
\* the write of the call is in follower f's store
Applied(f) == get(StoreOf(f), args.key) = args.value

\* C17: after replicate has returned, every attempt that is still outstanding
\* runs on: it ends, either failed or acknowledged with its write applied to
\* its follower's store; an attempt whose request reached the follower has
\* been applied there; and the returned outcome never changes again.
C17_OrphansKeepRunning ==
    /\ \A f \in Followers :
          (Returned /\ f \in Outstanding) ~>
              (tasks[f] = "fail" \/ (tasks[f] = "ok" /\ Applied(f) /\ Received(f) # {}))
    /\ [](\A f \in follower_urls :
              (pc # "idle" /\ tasks[f] \in {"responded", "ok"}) => Applied(f))
    /\ [][Returned => (Returned' /\ result' = result /\ pending' = pending
                         /\ successful_count' = successful_count
                         /\ failed_count' = failed_count)]_vars

\* an attempt that was outstanding when replicate returned early with quorum
\* met has been acknowledged and applied afterwards
C17_Witness ==
    /\ Returned /\ committed /\ args.quorum >= 1
    /\ \E f \in pending : tasks[f] = "ok" /\ Applied(f) /\ Received(f) # {}

\* C18: within one replicate call over a non-empty follower set an attempt
\* exists for exactly the configured followers, every request a follower
\* receives carries the (key, value, timestamp) of the call, no follower
\* receives a second request, and a failed attempt is never started again.
C18_OneAttemptPerFollower ==
    /\ []((pc # "idle" /\ follower_urls # {}) =>
            /\ \A f \in Followers : tasks[f] # "none" <=> f \in follower_urls
            /\ \A i \in 1 .. Len(hist) :
                  /\ hist[i].follower \in follower_urls
                  /\ hist[i].request = ReplicationRequest(args)
            /\ \A f \in Followers : Cardinality(Received(f)) <= 1
            /\ \A f \in Followers :
                  tasks[f] \in {"responded", "ok"} => Cardinality(Received(f)) = 1)
    /\ [][\A f \in Followers : tasks[f] = "fail" => tasks'[f] = "fail"]_vars

\* both followers received the request, one attempt failed after that
C18_Witness ==
    /\ Cardinality(follower_urls) = 2
    /\ \A f \in follower_urls : Cardinality(Received(f)) = 1
    /\ \E f \in follower_urls : tasks[f] = "fail"
    /\ \E f \in follower_urls : tasks[f] = "ok"

\* C21: when every attempt eventually resolves, every call of replicate
\* eventually returns, for every quorum and every follower set; while it waits
\* something is pending and the quorum is not reached, and it leaves the wait
\* loop only with the quorum reached or nothing pending.
C21_ReplicateTerminates ==
    /\ (pc # "idle") ~> Returned
    /\ [](pc = "waiting" => (pending # {} /\ successful_count < args.quorum))
    /\ [][(pc = "waiting" /\ pc' # "waiting") =>
            (Returned' /\ (successful_count' >= args.quorum \/ pending' = {}))]_vars
    /\ [][(pc = "idle" /\ pc' # "idle") => pc' \in {"waiting", "returned"}]_vars

\* a call that waited for every attempt, one of them failed, and returned
\* without the quorum
C21_Witness ==
    /\ Returned /\ ~committed
    /\ args.quorum >= 1 /\ follower_urls # {}
    /\ pending = {} /\ failed_count >= 1 /\ Outstanding = {}

\* the attempts the wait loop has taken out of pending as acknowledged
ObservedAcknowledged == {f \in follower_urls \ pending : tasks[f] = "ok"}

\* the returned count is exactly quorum and the count never passes the quorum
C22_ExactCount ==
    /\ (Returned /\ committed) =>
            /\ acknowledged_count = args.quorum
            /\ successful_count = args.quorum
            /\ Cardinality(ObservedAcknowledged) >= acknowledged_count
    /\ successful_count <= args.quorum

\* C22 (as claimed): when replicate returns committed = true with quorum >= 1,
\* the returned count is exactly quorum, never more.
C22_CountIsExactlyQuorumAlways ==
    (pc # "idle" /\ args.quorum >= 1) => C22_ExactCount

\* C22 (amended): over a non-empty follower set, when replicate returns
\* committed = true with quorum >= 1, the returned count is exactly quorum,
\* also when one wake-up of the wait loop finds more acknowledged attempts
\* than were still needed; with no followers the count is 0.
C22_CountIsExactlyQuorum ==
    /\ (pc # "idle" /\ args.quorum >= 1 /\ follower_urls # {}) => C22_ExactCount
    /\ (Returned /\ follower_urls = {}) => acknowledged_count = 0

\* one wake-up found two acknowledged attempts while the quorum was 1
C22_Witness ==
    /\ Returned /\ committed /\ args.quorum = 1
    /\ acknowledged_count = 1
    /\ Cardinality(ObservedAcknowledged) = 2

\* ------------------------------------------------------------ SpecStore
\* One KeyValueStore (the one of node Leader) driven by set calls, with or
\* without a timestamp.  hist records each call, its result, and whether the
\* key had an entry before the call.
InitStore ==
    /\ InitStores
    /\ hist = << >>
    /\ InitConfigDefault
    /\ InitReplication
    /\ InitCalls

Set(key, value, timestamp) ==
    /\ Len(hist) < MaxCalls
    /\ LET r == set(StoreOf(Leader), key, value, timestamp) IN
        /\ store' = [store EXCEPT ![Leader] = r.store]
        /\ timestamps' = [timestamps EXCEPT ![Leader] = r.timestamps]
        /\ hist' = Append(hist, [key |-> key, value |-> value, timestamp |-> timestamp,
                                 ret |-> r.ret, fresh |-> ~exists(StoreOf(Leader), key)])
    /\ UNCHANGED <<configVars, concVars, replVars>>

NextStore == \E key \in Keys, value \in Values, timestamp \in OptTimestamps :
                Set(key, value, timestamp)

SpecStore == InitStore /\ [][NextStore]_vars

\* ------------------------------------------------- claims on SpecStore
Last(h) == h[Len(h)]

Max(S) == CHOOSE x \in S : \A y \in S : y <= x

TsOf(call) == CHOOSE t \in call.timestamp : TRUE

\* the timestamps of the set calls on key that returned true
AppliedTimestamps(key) ==
    {TsOf(hist[i]) : i \in {j \in 1 .. Len(hist) :
        /\ hist[j].key = key
        /\ hist[j].timestamp # NoTimestamp
        /\ hist[j].ret}}

\* the last two calls are timestamped sets on the same key, the first one on a
\* key that had no entry
TwoWrites ==
    /\ Len(hist) >= 2
    /\ hist[Len(hist) - 1].key = Last(hist).key
    /\ hist[Len(hist) - 1].timestamp # NoTimestamp
    /\ Last(hist).timestamp # NoTimestamp
    /\ hist[Len(hist) - 1].fresh

\* C4 (as claimed): LWW monotonicity.  After set(k, v1, t1) then set(k, v2, t2)
\* on a key k that had no entry: t2 > t1 gives get(k) = v2; t2 < t1 and
\* t2 = t1 make the second set return false and leave get(k) = v1.
C4_LWWMonotonicity ==
    TwoWrites =>
        LET c1 == hist[Len(hist) - 1]
            c2 == Last(hist)
            t1 == TsOf(c1)
            t2 == TsOf(c2)
            now == get(StoreOf(Leader), c2.key)
        IN  /\ t2 > t1 => now = c2.value
            /\ t2 < t1 => (~c2.ret /\ now = c1.value)
            /\ t2 = t1 => (~c2.ret /\ now = c1.value)

\* C8: for every key present in the store, the stored timestamp is the maximum
\* timestamp over the set calls on that key that returned true; a key whose
\* successful sets all came without a timestamp has no stored timestamp.
C8_StoredTimestampIsMax ==
    \A key \in DOMAIN store[Leader] :
        IF AppliedTimestamps(key) = {}
        THEN key \notin DOMAIN timestamps[Leader]
        ELSE /\ key \in DOMAIN timestamps[Leader]
             /\ timestamps[Leader][key] = Max(AppliedTimestamps(key))

\* a key took two timestamped writes and then rejected a stale one
C8_Witness ==
    \E key \in DOMAIN store[Leader] :
        /\ Cardinality(AppliedTimestamps(key)) >= 2
        /\ Last(hist).key = key
        /\ Last(hist).timestamp # NoTimestamp
        /\ ~Last(hist).ret

\* C9 (as claimed): a timestamped set on a key that has no entry yet is applied
\* and returns true whatever the timestamp; afterwards get(key) = value.
C9_FirstSetAlwaysApplied ==
    (Len(hist) >= 1 /\ Last(hist).fresh /\ Last(hist).timestamp # NoTimestamp) =>
        /\ Last(hist).ret
        /\ get(StoreOf(Leader), Last(hist).key) = Last(hist).value

SameDelivery(c1, c2) ==
    /\ c1.key = c2.key
    /\ c1.value = c2.value
    /\ c1.timestamp = c2.timestamp

\* C10: delivering the same (key, value, timestamp) a second time leaves the
\* store as the first delivery left it: the values (get, exists, all) and the
\* stored timestamps do not change.
C10_IdempotentDelivery ==
    [][(/\ Len(hist) >= 1
        /\ Len(hist') = Len(hist) + 1
        /\ SameDelivery(Last(hist), Last(hist')))
       => (store' = store /\ timestamps' = timestamps)]_vars

\* the same timestamped write was delivered twice: applied, then ignored
C10_Witness ==
    /\ Len(hist) >= 2
    /\ SameDelivery(hist[Len(hist) - 1], Last(hist))
    /\ Last(hist).timestamp # NoTimestamp
    /\ hist[Len(hist) - 1].ret
    /\ ~Last(hist).ret
    /\ get(StoreOf(Leader), Last(hist).key) = Last(hist).value

\* the timestamps of the applied timestamped calls on key before call i
AppliedBefore(i, key) ==
    {TsOf(hist[j]) : j \in {j \in 1 .. i - 1 :
        hist[j].key = key /\ hist[j].timestamp # NoTimestamp /\ hist[j].ret}}

\* C23: a set without a timestamp overwrites the key's value and returns true
\* whatever timestamp is stored, and changes neither a stored timestamp nor
\* another key; a later timestamped set on the key is applied exactly when
\* its timestamp is above the timestamp stored before.
C23_UntimestampedSet ==
    /\ [][(Len(hist') = Len(hist) + 1 /\ Last(hist').timestamp = NoTimestamp) =>
            /\ Last(hist').ret
            /\ store'[Leader] = DictPut(store[Leader], Last(hist').key, Last(hist').value)
            /\ timestamps'[Leader] = timestamps[Leader]]_vars
    /\ [](\A i \in 1 .. Len(hist) :
            (hist[i].timestamp # NoTimestamp /\ AppliedBefore(i, hist[i].key) # {}) =>
                (hist[i].ret <=> TsOf(hist[i]) > Max(AppliedBefore(i, hist[i].key))))
    /\ [](\A key \in DOMAIN timestamps[Leader] :
            timestamps[Leader][key] = Max(AppliedBefore(Len(hist) + 1, key)))

\* a key with a stored timestamp was overwritten without a timestamp, and then
\* a set with a timestamp not above the stored one was rejected
C23_Witness ==
    /\ Len(hist) = 3
    /\ hist[1].key = hist[2].key /\ hist[2].key = hist[3].key
    /\ hist[1].timestamp # NoTimestamp /\ hist[1].ret
    /\ hist[2].timestamp = NoTimestamp /\ hist[2].ret /\ hist[2].value # hist[1].value
    /\ hist[3].timestamp # NoTimestamp /\ ~hist[3].ret
    /\ TsOf(hist[3]) <= TsOf(hist[1]) /\ TsOf(hist[3]) > 0
    /\ get(StoreOf(Leader), hist[2].key) = hist[2].value
    /\ timestamps[Leader][hist[1].key] = TsOf(hist[1])

\* --------------------------------------------------------- SpecFollower
\* One follower (node AFollower) whose POST /replicate endpoint receives
\* replication requests in any order.  hist records the requests handled.
AFollower == Leader + 1

InitFollower ==
    /\ InitStores
    /\ hist = << >>
    /\ InitConfigDefault
    /\ InitReplication
    /\ InitCalls

PostReplicate(request) ==
    /\ Len(hist) < MaxRequests
    /\ LET r == follower_replicate(StoreOf(AFollower), request) IN
        /\ store' = [store EXCEPT ![AFollower] = r.store]
        /\ timestamps' = [timestamps EXCEPT ![AFollower] = r.timestamps]
        /\ hist' = Append(hist, [key |-> request.key, value |-> request.value,
                                 timestamp |-> request.timestamp,
                                 success |-> r.response.success])
    /\ UNCHANGED <<configVars, concVars, replVars>>

NextFollower ==
    \E request \in [key : Keys, value : Values, timestamp : Timestamps] :
        PostReplicate(request)

SpecFollower == InitFollower /\ [][NextFollower]_vars

\* ------------------------------------------------ claims on SpecFollower
RequestsFor(key) == {i \in 1 .. Len(hist) : hist[i].key = key}

\* C5 (as claimed): when the replication calls of two writes to one key with
\* timestamps t1 < t2 have been delivered to the follower, in either order, the
\* follower's store holds the value of the t2 write.
C5_LastWriterWins ==
    \A key \in Keys :
        \A i, j \in RequestsFor(key) :
            (RequestsFor(key) = {i, j} /\ hist[i].timestamp < hist[j].timestamp)
                => get(StoreOf(AFollower), key) = hist[j].value

\* ----------------------------------------------------------- SpecLeader
\* The leader with 0 .. MaxFollowers followers, driven by POST /write
\* requests.  hist records each request and the response the client got.

\* the parameters of replicate(self, key, value, timestamp, quorum): none has a
\* default, so a call binds only if it passes exactly these
replicate_params == {"key", "value", "timestamp", "quorum"}
Binds(params, kwargs) == DOMAIN kwargs = params

\* an exception that leaves the handler is answered with status 500
InternalServerError == 500

\* write(request) on the leader (leader.py:11-42), up to its first await that
\* suspends or to its response
Write(key, value) ==
    /\ Len(hist) < MaxWrites
    /\ LET r == set(StoreOf(Leader), key, value, NoTimestamp)
           kwargs == [key |-> key, value |-> value, quorum |-> write_quorum]
       IN  /\ store' = [store EXCEPT ![Leader] = r.store]
           /\ timestamps' = [timestamps EXCEPT ![Leader] = r.timestamps]
           /\ IF Binds(replicate_params, kwargs)
              THEN /\ StartReplicate(kwargs)
                   /\ UNCHANGED hist
              ELSE \* TypeError: replicate() missing 1 required positional
                   \* argument: 'timestamp'
                   /\ hist' = Append(hist, [key |-> key, value |-> value,
                                            status_code |-> InternalServerError,
                                            success |-> FALSE])
                   /\ UNCHANGED replVars
    /\ UNCHANGED <<configVars, concVars>>

InitLeader ==
    /\ InitStores
    /\ hist = << >>
    /\ follower_urls \in FollowerUrlChoices
    /\ write_quorum \in Quorums
    /\ InitReplication
    /\ InitCalls

NextLeader == \E key \in Keys, value \in Values : Write(key, value)

SpecLeader == InitLeader /\ [][NextLeader]_vars

\* -------------------------------------------------- claims on SpecLeader
NoAttemptRunning == \A f \in Followers : tasks[f] \in {"none", "ok", "fail"}

\* C6 (as claimed): after a sequence of writes to one key, each issued after
\* the one before it returned success, once the last write has returned the
\* leader and every follower hold the value of the last write.
C6_ConvergenceAfterOverwrites ==
    (/\ Len(hist) >= 1
     /\ \A i \in 1 .. Len(hist) : hist[i].key = Last(hist).key
     /\ \A i \in 1 .. Len(hist) - 1 : hist[i].success)
    => \A n \in {Leader} \cup follower_urls :
          get(StoreOf(n), Last(hist).key) = Last(hist).value

\* C7 (as claimed): with quorum no larger than the number of followers (all of
\* them reachable), every write returns success = true, and once no attempt
\* is running every follower holds, for each written key, the leader's value.
C7_ReplicationToAllFollowers ==
    write_quorum <= Cardinality(follower_urls) =>
        /\ \A i \in 1 .. Len(hist) : hist[i].success
        /\ NoAttemptRunning =>
              \A f \in follower_urls : \A i \in 1 .. Len(hist) :
                  get(StoreOf(f), hist[i].key) = get(StoreOf(Leader), hist[i].key)

C16_SameTimestampEverywhere ==
    Len(hist) >= 1 =>
        /\ Last(hist).key \in DOMAIN timestamps[Leader]
        /\ pc # "idle"
        /\ DOMAIN args = replicate_params
        /\ args.key = Last(hist).key
        /\ args.value = Last(hist).value
        /\ args.timestamp = timestamps[Leader][Last(hist).key]

\* ------------------------------------------------------------- SpecConc
\* Handlers call set and all of the leader's store concurrently; each call is
\* executed line by line under the scheduling of the event loop.
CallSet(c, key, value, timestamp) ==
    /\ calls[c].line = "idle"
    /\ calls' = [calls EXCEPT ![c] = [method |-> "set", key |-> key, value |-> value,
                                      timestamp |-> timestamp, line |-> "line15",
                                      current_ts |-> 0]]
    /\ UNCHANGED <<storeVars, hist, configVars, replVars, snapshots>>

CallAll(c) ==
    /\ calls[c].line = "idle"
    /\ calls' = [calls EXCEPT ![c] = [IdleCall EXCEPT !.method = "all", !.line = "line27"]]
    /\ UNCHANGED <<storeVars, hist, configVars, replVars, snapshots>>

\* current_ts = self._timestamps.get(key, 0)
SetLine15(c) ==
    /\ calls[c].line = "line15" /\ CanRun(c)
    /\ calls' = [calls EXCEPT ![c].current_ts = set_current_ts(StoreOf(Leader), calls[c].key),
                              ![c].line = "line16"]
    /\ UNCHANGED <<storeVars, hist, configVars, replVars, snapshots>>

\* if timestamp is None or timestamp > current_ts: self._store[key] = value
\* else: return False
SetLine16(c) ==
    /\ calls[c].line = "line16" /\ CanRun(c)
    /\ IF set_condition(calls[c].timestamp, calls[c].current_ts)
       THEN /\ store' = [store EXCEPT ![Leader] =
                            set_store_value(StoreOf(Leader), calls[c].key, calls[c].value)]
            /\ calls' = [calls EXCEPT ![c].line = "line18"]
       ELSE /\ calls' = [calls EXCEPT ![c].line = "done"]
            /\ UNCHANGED store
    /\ UNCHANGED <<timestamps, hist, configVars, replVars, snapshots>>

\* if timestamp is not None: self._timestamps[key] = timestamp; return True
SetLine18(c) ==
    /\ calls[c].line = "line18" /\ CanRun(c)
    /\ timestamps' = [timestamps EXCEPT ![Leader] =
                        set_store_timestamp(StoreOf(Leader), calls[c].key, calls[c].timestamp)]
    /\ calls' = [calls EXCEPT ![c].line = "done"]
    /\ UNCHANGED <<store, hist, configVars, replVars, snapshots>>

\* return self._store.copy()
AllLine27(c) ==
    /\ calls[c].line = "line27" /\ CanRun(c)
    /\ snapshots' = Append(snapshots, all(StoreOf(Leader)))
    /\ calls' = [calls EXCEPT ![c].line = "done"]
    /\ UNCHANGED <<storeVars, hist, configVars, replVars>>

NextConc ==
    \/ \E c \in Callers, key \in Keys, value \in Values, timestamp \in OptTimestamps :
          CallSet(c, key, value, timestamp)
    \/ \E c \in Callers : CallAll(c)
    \/ \E c \in Callers : SetLine15(c)
    \/ \E c \in Callers : SetLine16(c)
    \/ \E c \in Callers : SetLine18(c)
    \/ \E c \in Callers : AllLine27(c)

SpecConc == InitStore /\ [][NextConc]_vars

\* ------------------------------------------------- claims on SpecConc
\* call c is a finished set with a timestamp
TimestampedSetDone(c) ==
    calls[c].method = "set" /\ calls[c].line = "done" /\ calls[c].timestamp # NoTimestamp

\* c and d are the only calls of set, on the same key, with timestamps t1 < t2
TwoConcurrentSets(c, d) ==
    /\ c # d
    /\ TimestampedSetDone(c) /\ TimestampedSetDone(d)
    /\ calls[c].key = calls[d].key
    /\ TsOf(calls[c]) < TsOf(calls[d])
    /\ \A e \in Callers \ {c, d} : calls[e].method # "set"

\* C19 (as claimed): for two concurrent calls of set on the same key with
\* timestamps t1 < t2, under every interleaving the store ends with the value
\* and the timestamp of the t2 call.
C19_AtomicSet ==
    \A c, d \in Callers :
        TwoConcurrentSets(c, d) =>
            /\ get(StoreOf(Leader), calls[d].key) = calls[d].value
            /\ calls[d].key \in DOMAIN timestamps[Leader]
            /\ timestamps[Leader][calls[d].key] = TsOf(calls[d])

\* the items a dict returned by all() holds now
Items(d) == IF d.object = "_store" THEN store[Leader] ELSE d.items
\* call c of set has written its value, its timestamp update is still to come
PartlyApplied(c) ==
    calls[c].method = "set" /\ calls[c].line = "line18" /\ calls[c].timestamp # NoTimestamp

\* C20: a mapping returned by all() is never changed by what happens after it
\* was taken, and at the moment it is taken it holds the items of the store
\* while no call of set is between writing its value and its timestamp.
C20_SnapshotIsPointInTimeCopy ==
    /\ [][\A i \in 1 .. Len(snapshots) : Items(snapshots[i])' = Items(snapshots[i])]_vars
    /\ [][Len(snapshots') > Len(snapshots) =>
            /\ \A c \in Callers : ~PartlyApplied(c)
            /\ Items(snapshots'[Len(snapshots')]) = store[Leader]]_vars

\* a non-empty snapshot was taken and a later set changed one of its keys in
\* the store
C20_Witness ==
    /\ Len(snapshots) >= 1
    /\ \E k \in DOMAIN Items(snapshots[1]) : store[Leader][k] # Items(snapshots[1])[k]
    /\ \A c \in Callers : calls[c].line = "done"

====
